---- MODULE Spec2Model ----
(***************************************************************************)
(* The corridor game of Project-AI: the chunk stream (LevelManager), the   *)
(* zone and collision checks (GameManager), the turn request               *)
(* (CharacterController) and the constrained mover (CharacterAnimator).    *)
(*                                                                         *)
(* Lengths are fixed-point: one model unit is 1/Scale of a world unit, the *)
(* coarsest grid on which every length constant of the source (0.1, 0.15,  *)
(* 2.9, 3.5, 6.5, 13.5, ...) is a whole number.  Points and directions are *)
(* pairs <<x, z>> of the horizontal plane (y is never used by the logic).  *)
(* Directions are kept in units of 1/HeadingOne.  Angles are counted in    *)
(* quarter turns, since TURN_MODE is "INSTANT" and the traveler only ever  *)
(* rotates by +-PI/2.                                                      *)
(***************************************************************************)
EXTENDS Integers, Sequences, FiniteSets, TLC

Scale == 20

\* the value 1.0 of a direction component
HeadingOne == 1000

\* what cos(PI/2) evaluates to in floating point: small, but not 0
CosResidual == 1

\* PI/2 in milliradians, to compare quarter turns with 0.3 and 0.5 rad
QuarterTurnMilliRad == 1571

chunkLength == 20 * Scale

chunkWidth == 7 * Scale

renderDistance == 6

SEQUENCE_LENGTH == 10

\* ---- bounds of the model ----

\* calls of handleTurn explored by the stream-only specification
MaxTurns == 3

\* how far from the world origin axis the traveler is followed, in model units
MaxStray == 370

VARIABLES
    chunks,          \* LevelManager.chunks, oldest first
    nextChunk,       \* the spawn cursor <<x, z>> (nextChunkZ in the source)
    heading,         \* growth direction of the stream
    chunksSpawned,   \* LevelManager.chunksSpawned
    stopSpawning,    \* LevelManager.stopSpawning
    activeJunction,  \* LevelManager.activeJunction: a chunk's id and pose, id 0 = none
    spawnTotal,      \* number of chunks ever pushed: the identity of the next chunk
    position,        \* character.group.position <<x, z>>
    rotationY,       \* character.group.rotation.y in quarter turns
    speed,           \* animator.speed
    isBlocked,       \* animator.isBlocked
    canTurn,         \* CharacterController.canTurn
    lastTurnInput,   \* CharacterController.lastTurnInput
    constraintAxis,  \* animator.constraintAxis
    constraintCenter,\* animator.constraintCenter
    pc,              \* which handler of the frame runs next
    scanBy,          \* id of the chunk whose constraint the last zone scan left in force, 0 = none
    inBounds,        \* ids of the chunks whose bounds held the traveler in the last zone scan
    turnEvents,      \* ids of the chunks for which checkOrientation called handleTurn, in order
    lastTurn,        \* the last handleTurn that acted: its direction and the heading before
    turnCalls,       \* number of handleTurn calls made by the stream-only specification
    moved            \* what the last CharacterController.update did

lmVars == <<chunks, nextChunk, heading, chunksSpawned, stopSpawning, activeJunction, spawnTotal>>

chVars == <<position, rotationY, speed, isBlocked, canTurn, lastTurnInput,
            constraintAxis, constraintCenter>>

ghostVars == <<scanBy, inBounds, turnEvents, lastTurn, turnCalls, moved>>

vars == <<lmVars, chVars, pc, ghostVars>>

\* ---------------------------------------------------------------- vectors

Abs(n) == IF n < 0 THEN -n ELSE n

Sign(n) == IF n < 0 THEN -1 ELSE IF n > 0 THEN 1 ELSE 0

\* Math.round: the nearest whole number of n / d, halves upwards (d > 0)
RoundDiv(n, d) == (2 * n + d) \div (2 * d)

\* n / d rounded away from zero: the fixed-point step of a lerp never stalls short
AwayDiv(n, d) == Sign(n) * ((Abs(n) + d - 1) \div d)

VecAdd(a, b) == <<a[1] + b[1], a[2] + b[2]>>

\* a direction (in 1/HeadingOne) times a length
Along(h, len) == <<RoundDiv(h[1] * len, HeadingOne), RoundDiv(h[2] * len, HeadingOne)>>

NORTH == <<0, -HeadingOne>>

Cardinals == {<<0, -HeadingOne>>, <<0, HeadingOne>>, <<HeadingOne, 0>>, <<-HeadingOne, 0>>}

Directions == {"LEFT", "RIGHT"}

\* ------------------------------------------------------------ LevelManager

LM == [chunks |-> chunks, nextChunk |-> nextChunk, heading |-> heading,
       chunksSpawned |-> chunksSpawned, stopSpawning |-> stopSpawning,
       activeJunction |-> activeJunction, spawnTotal |-> spawnTotal]

NoJunction == [id |-> 0, pos |-> <<0, 0>>]

\* the record pushed on this.chunks: its mesh pose, the type field as stored
\* ("NONE" when the source stores no type), and what was spawned (kind, seq)
Chunk(lm, type, kind) ==
    [id |-> lm.spawnTotal + 1, pos |-> lm.nextChunk, h |-> lm.heading,
     type |-> type, kind |-> kind, seq |-> lm.chunksSpawned + 1, hasTurned |-> FALSE]

\* "Advance": nextChunkZ -= chunkLength, along the growth direction
advanceCursor(lm) ==
    [lm EXCEPT !.nextChunk = VecAdd(lm.nextChunk, Along(lm.heading, chunkLength))]

\* mutant: the cursor is advanced before the chunk is placed and stored
spawnChunkAdvanceFirst(lm) ==
    LET a == advanceCursor(lm)
    IN  [a EXCEPT !.chunks = Append(lm.chunks, Chunk(a, "NONE", "NORMAL")),
                  !.spawnTotal = lm.spawnTotal + 1]

\* spawnChunk stores {mesh, z}: no type
spawnChunk(lm) ==
    advanceCursor([lm EXCEPT !.chunks = Append(lm.chunks, Chunk(lm, "NONE", "NORMAL")),
                             !.spawnTotal = lm.spawnTotal + 1])

\* spawnTJunction stores {mesh, z, type: "JUNCTION"}
spawnTJunction(lm) ==
    advanceCursor([lm EXCEPT !.chunks = Append(lm.chunks, Chunk(lm, "JUNCTION", "JUNCTION")),
                             !.spawnTotal = lm.spawnTotal + 1])

\* the stream remembers the junction it has just spawned
trackActiveJunction(lm) ==
    LET j == lm.chunks[Len(lm.chunks)]
    IN  [lm EXCEPT !.activeJunction = [id |-> j.id, pos |-> j.pos]]

\* mutant: the pattern test without its chunksSpawned > 0 part
isJunctionTurnNoGuard(n) == n % SEQUENCE_LENGTH = 0

isJunctionTurnMutant(n) == n > 0 /\ (n + 1) % SEQUENCE_LENGTH = 0

\* the pattern test of spawnSequence on the count of earlier spawns
isJunctionTurn(n) == n > 0 /\ n % SEQUENCE_LENGTH = 0

\* mutant: spawning a junction does not halt the stream
spawnSequenceKeepsGoing(lm) ==
    IF lm.stopSpawning THEN lm
    ELSE LET spawned == IF isJunctionTurn(lm.chunksSpawned)
                        THEN trackActiveJunction(spawnTJunction(lm))
                        ELSE spawnChunk(lm)
         IN  [spawned EXCEPT !.chunksSpawned = lm.chunksSpawned + 1]

\* mutant: a halted call still counts as a spawn
spawnSequenceCountsHalted(lm) ==
    IF lm.stopSpawning THEN [lm EXCEPT !.chunksSpawned = lm.chunksSpawned + 1]
    ELSE LET spawned == IF isJunctionTurn(lm.chunksSpawned)
                        THEN [trackActiveJunction(spawnTJunction(lm)) EXCEPT !.stopSpawning = TRUE]
                        ELSE spawnChunk(lm)
         IN  [spawned EXCEPT !.chunksSpawned = lm.chunksSpawned + 1]

\* mutant: no early return while the stream is halted
spawnSequenceNoHalt(lm) ==
    LET spawned == IF isJunctionTurn(lm.chunksSpawned)
                   THEN [trackActiveJunction(spawnTJunction(lm)) EXCEPT !.stopSpawning = TRUE]
                   ELSE spawnChunk(lm)
    IN  [spawned EXCEPT !.chunksSpawned = lm.chunksSpawned + 1]

spawnSequence(lm) ==
    IF lm.stopSpawning THEN lm
    ELSE LET spawned == IF isJunctionTurn(lm.chunksSpawned)
                        THEN [trackActiveJunction(spawnTJunction(lm)) EXCEPT !.stopSpawning = TRUE]
                        ELSE spawnChunk(lm)
         IN  [spawned EXCEPT !.chunksSpawned = lm.chunksSpawned + 1]

RECURSIVE spawnTimes(_, _)
\* the constructor's loop: for (i = 0; i < renderDistance; i++) spawnSequence()
spawnTimes(lm, n) == IF n = 0 THEN lm ELSE spawnTimes(spawnSequence(lm), n - 1)

LevelManagerNew ==
    spawnTimes([chunks |-> <<>>, nextChunk |-> <<0, 0>>, heading |-> NORTH,
                chunksSpawned |-> 0, stopSpawning |-> FALSE,
                activeJunction |-> NoJunction, spawnTotal |-> 0], renderDistance)

\* mutant: the buffer is the whole render distance
bufferDistanceWide == chunkLength * renderDistance

bufferDistance == chunkLength * (renderDistance - 2)

\* mutant: the whole list is filtered, every chunk behind the threshold goes
removeOldChunksAll(lm, playerZ) ==
    LET cleanupThreshold == playerZ + chunkLength * 2
        keep(c) == ~(c.pos[2] > cleanupThreshold)
    IN  [lm EXCEPT !.chunks = SelectSeq(lm.chunks, keep)]

\* mutant: only one chunk is kept behind the traveler
removeOldChunksEager(lm, playerZ) ==
    LET cleanupThreshold == playerZ + chunkLength
    IN  IF Len(lm.chunks) > 0 /\ lm.chunks[1].pos[2] > cleanupThreshold
        THEN [lm EXCEPT !.chunks = Tail(lm.chunks)]
        ELSE lm

\* mutant: the oldest chunk is moved to the cursor and reused, not removed
removeOldChunksRecycle(lm, playerZ) ==
    LET cleanupThreshold == playerZ + chunkLength * 2
    IN  IF Len(lm.chunks) > 0 /\ lm.chunks[1].pos[2] > cleanupThreshold
        THEN [lm EXCEPT !.chunks = Append(Tail(lm.chunks),
                                          [lm.chunks[1] EXCEPT !.pos = lm.nextChunk, !.h = lm.heading])]
        ELSE lm

\* mutant: the threshold lies two chunks ahead of the traveler, not behind
removeOldChunksAhead(lm, playerZ) ==
    LET cleanupThreshold == playerZ - chunkLength * 2
    IN  IF Len(lm.chunks) > 0 /\ lm.chunks[1].pos[2] > cleanupThreshold
        THEN [lm EXCEPT !.chunks = Tail(lm.chunks)]
        ELSE lm

removeOldChunks(lm, playerZ) ==
    LET cleanupThreshold == playerZ + chunkLength * 2
    IN  IF Len(lm.chunks) > 0 /\ lm.chunks[1].pos[2] > cleanupThreshold
        THEN [lm EXCEPT !.chunks = Tail(lm.chunks)]
        ELSE lm

\* LevelManager.update(playerZ)
update(lm, playerZ) ==
    IF playerZ < lm.nextChunk[2] + bufferDistance
    THEN removeOldChunks(spawnSequence(lm), playerZ)
    ELSE lm

\* ---- the turn coordinator

\* rotation in the x-z plane by -90 degrees for LEFT, +90 for RIGHT, as the
\* floating-point product evaluates it: sin is exactly +-1, cos leaves a residual
rotateRaw(h, dir) ==
    LET s == IF dir = "LEFT" THEN -HeadingOne ELSE HeadingOne
        c == CosResidual
    IN  <<(h[1] * c - h[2] * s) \div HeadingOne, (h[1] * s + h[2] * c) \div HeadingOne>>

snapCardinalMutant(v) == v

\* re-snap the components to exact cardinal values
snapCardinal(v) == <<HeadingOne * RoundDiv(v[1], HeadingOne), HeadingOne * RoundDiv(v[2], HeadingOne)>>

rotateHeadingMutant(h, dir) == snapCardinal(rotateRaw(h, "LEFT"))

rotateHeading(h, dir) == snapCardinal(rotateRaw(h, dir))

\* mutant: the junction's spawn position is taken for its fork centre
junctionCenterAtSpawn(jpos, oldHeading) == jpos

junctionCenter(jpos, oldHeading) ==
    VecAdd(jpos, Along(oldHeading, (chunkLength - chunkWidth) \div 2))

\* normalize(cross(oldHeading, verticalAxis)) for the vertical axis (0, 1, 0):
\* (hx, 0, hz) x (0, 1, 0) = (-hz, 0, hx)
perpendicular(oldHeading) == <<-oldHeading[2], oldHeading[1]>>

directionSign(dir) == IF dir = "LEFT" THEN -1 ELSE 1

sideOffsetMutant(oldHeading, dir) ==
    Along(perpendicular(oldHeading), -directionSign(dir) * ((chunkLength + chunkWidth) \div 2))

sideOffset(oldHeading, dir) ==
    Along(perpendicular(oldHeading), directionSign(dir) * ((chunkLength + chunkWidth) \div 2))

newCursor(jpos, oldHeading, dir) ==
    VecAdd(VecAdd(junctionCenter(jpos, oldHeading), sideOffset(oldHeading, dir)),
           Along(rotateHeading(oldHeading, dir), chunkLength))

\* mutant: the turn is carried out without looking for an active junction
handleTurnMutant(lm, dir) ==
    spawnSequence([lm EXCEPT
        !.heading = rotateHeading(lm.heading, dir),
        !.nextChunk = newCursor(lm.activeJunction.pos, lm.heading, dir),
        !.chunksSpawned = 0,
        !.stopSpawning = FALSE])

handleTurn(lm, dir) ==
    IF lm.activeJunction.id = 0 THEN lm
    ELSE spawnSequence([lm EXCEPT
            !.heading = rotateHeading(lm.heading, dir),
            !.nextChunk = newCursor(lm.activeJunction.pos, lm.heading, dir),
            !.chunksSpawned = 0,
            !.stopSpawning = FALSE])

\* ------------------------------------------------------------- GameManager

\* cos and sin of a chunk mesh's rotation.y, times HeadingOne: the mesh is
\* turned so that its local -Z axis is the heading it was spawned with
cosRot(chunk) == -chunk.h[2]

sinRot(chunk) == -chunk.h[1]

\* chunk.mesh.rotation.y in quarter turns, in (-PI, PI]
rotationOf(chunk) ==
    IF cosRot(chunk) = HeadingOne THEN 0
    ELSE IF sinRot(chunk) = HeadingOne THEN 1
    ELSE IF sinRot(chunk) = -HeadingOne THEN -1
    ELSE 2

\* chunkMesh.worldToLocal(pPos.clone())
worldToLocal(chunk, p) ==
    LET dx == p[1] - chunk.pos[1]
        dz == p[2] - chunk.pos[2]
    IN  <<RoundDiv(dx * cosRot(chunk) - dz * sinRot(chunk), HeadingOne),
          RoundDiv(dx * sinRot(chunk) + dz * cosRot(chunk), HeadingOne)>>

\* the % of JavaScript: the remainder has the sign of the dividend
JsRem(a, n) == Sign(a) * (Abs(a) % n)

\* normalizeAngle of checkOrientation, on quarter turns (2 * PI is 4)
normalizeAngle(a) ==
    LET r == JsRem(a, 4)
    IN  IF r > 2 THEN r - 4 ELSE IF r < -2 THEN r + 4 ELSE r

\* the normRot of checkCollision: ((r % 2PI) + PI) % 2PI - PI
normalizeRelative(a) == JsRem(JsRem(a, 4) + 2, 4) - 2

isInside(chunk, localPos) ==
    IF chunk.type = "NORMAL"
    THEN Abs(localPos[1]) < 10 * Scale /\ Abs(localPos[2]) < 12 * Scale
    ELSE Abs(localPos[1]) < 18 * Scale /\ Abs(localPos[2]) < 12 * Scale

\* mutant: a sign slip in the branch for a local Z constraint of an X-aligned chunk
applyLocalConstraintSignSlip(chunk, localAxis, localValue) ==
    LET isZAligned == 2 * Abs(cosRot(chunk)) > HeadingOne
    IN  IF localAxis = "X"
        THEN IF isZAligned
             THEN [axis |-> "Z", center |-> chunk.pos[1] + RoundDiv(localValue * cosRot(chunk), HeadingOne)]
             ELSE [axis |-> "X", center |-> chunk.pos[2] - RoundDiv(localValue * sinRot(chunk), HeadingOne)]
        ELSE IF isZAligned
             THEN [axis |-> "X", center |-> chunk.pos[2] + RoundDiv(localValue * cosRot(chunk), HeadingOne)]
             ELSE [axis |-> "Z", center |-> chunk.pos[1] - RoundDiv(localValue * sinRot(chunk), HeadingOne)]

\* _applyLocalConstraint: the mode and centre handed to setConstraintMode
applyLocalConstraint(chunk, localAxis, localValue) ==
    LET isZAligned == 2 * Abs(cosRot(chunk)) > HeadingOne
    IN  IF localAxis = "X"
        THEN IF isZAligned
             THEN [axis |-> "Z", center |-> chunk.pos[1] + RoundDiv(localValue * cosRot(chunk), HeadingOne)]
             ELSE [axis |-> "X", center |-> chunk.pos[2] - RoundDiv(localValue * sinRot(chunk), HeadingOne)]
        ELSE IF isZAligned
             THEN [axis |-> "X", center |-> chunk.pos[2] + RoundDiv(localValue * cosRot(chunk), HeadingOne)]
             ELSE [axis |-> "Z", center |-> chunk.pos[1] + RoundDiv(localValue * sinRot(chunk), HeadingOne)]

setConstraint(acc, chunk, localAxis, localValue) ==
    LET c == applyLocalConstraint(chunk, localAxis, localValue)
    IN  [acc EXCEPT !.axis = c.axis, !.center = c.center, !.by = chunk.id]

\* Math.abs(normRot2) < 0.3
isApproaching(chunk, rotY) ==
    Abs(normalizeAngle(rotY - rotationOf(chunk))) * QuarterTurnMilliRad < 300

hasTurnedMutant(chunk) == FALSE

\* chunk.hasTurned, the latch read by the turn trigger
hasTurned(chunk) == chunk.hasTurned

\* chunk === this.levelManager.activeJunction
isActiveJunction(chunk, lm) == chunk.id = lm.activeJunction.id

\* Math.abs(localPos.x) > 0.1 && !chunk.hasTurned && isActiveJunction
turnTrigger(chunk, localPos, lm) ==
    /\ 10 * Abs(localPos[1]) > Scale
    /\ ~hasTurned(chunk)
    /\ isActiveJunction(chunk, lm)

\* (localPos.x > 0) ? "LEFT" : "RIGHT"
turnDirection(localPos) == IF localPos[1] > 0 THEN "LEFT" ELSE "RIGHT"

\* id of the last JUNCTION of the list, 0 if there is none
RECURSIVE latestJunctionIndex(_, _)
latestJunctionIndex(list, i) ==
    IF i = 0 THEN 0
    ELSE IF list[i].type = "JUNCTION" THEN i
    ELSE latestJunctionIndex(list, i - 1)

\* id of the most recently spawned chunk of kind JUNCTION in the list, 0 if none
latestJunctionId(list) ==
    LET ids == {list[k].id : k \in {n \in 1..Len(list) : list[n].kind = "JUNCTION"}}
    IN  IF ids = {} THEN 0 ELSE CHOOSE m \in ids : \A o \in ids : o <= m

RECURSIVE scanChunks(_, _, _, _)
\* the for-of loop of checkOrientation from chunk i on; acc holds the level
\* manager, the constraint set so far and the turn events emitted
scanChunks(i, acc, pPos, rotY) ==
    IF i > Len(acc.lm.chunks) THEN acc
    ELSE
      LET chunk == acc.lm.chunks[i]
          localPos == worldToLocal(chunk, pPos)
      IN  IF ~isInside(chunk, localPos) THEN scanChunks(i + 1, acc, pPos, rotY)
          ELSE IF chunk.type = "NORMAL"
          THEN [setConstraint(acc, chunk, "X", 0) EXCEPT !.applied = TRUE]
          ELSE IF chunk.type = "JUNCTION" /\ ~acc.applied
          THEN IF isApproaching(chunk, rotY)
               THEN scanChunks(i + 1, setConstraint(acc, chunk, "X", 0), pPos, rotY)
               ELSE LET side == setConstraint(acc, chunk, "Z", -((65 * Scale) \div 10))
                    IN  IF turnTrigger(chunk, localPos, acc.lm)
                        THEN LET turned == handleTurn(acc.lm, turnDirection(localPos))
                             IN  [side EXCEPT
                                    !.lm = [turned EXCEPT !.chunks[i].hasTurned = TRUE],
                                    !.ev = Append(acc.ev, [id |-> chunk.id,
                                                           dir |-> turnDirection(localPos),
                                                           x |-> localPos[1],
                                                           latest |-> latestJunctionId(acc.lm.chunks)])]
                        ELSE scanChunks(i + 1, side, pPos, rotY)
          ELSE scanChunks(i + 1, acc, pPos, rotY)

checkOrientation(lm, axis, center, pPos, rotY) ==
    scanChunks(1, [lm |-> lm, axis |-> axis, center |-> center,
                   applied |-> FALSE, by |-> 0, ev |-> <<>>], pPos, rotY)

\* mutant: the near threshold is 8.0
inWallZoneFar(chunk, pPos) ==
    LET localPos == worldToLocal(chunk, pPos)
        wallLocalZ == -(chunkLength \div 2)
        dist == Abs(localPos[2] - wallLocalZ)
    IN  dist < 8 * Scale /\ Abs(localPos[1]) < 15 * Scale

\* dist < 4.0 && Math.abs(localPos.x) < 15, against the wall at local Z = -chunkLength / 2
inWallZone(chunk, pPos) ==
    LET localPos == worldToLocal(chunk, pPos)
        wallLocalZ == -(chunkLength \div 2)
        dist == Abs(localPos[2] - wallLocalZ)
    IN  dist < 4 * Scale /\ Abs(localPos[1]) < 15 * Scale

\* Math.abs(normRot) > 0.5
isSidePath(chunk, rotY) ==
    Abs(normalizeRelative(rotY - rotationOf(chunk))) * QuarterTurnMilliRad > 500

latestJunctionMutant(list) == 0

latestJunction(list) == latestJunctionIndex(list, Len(list))

\* mutant: the closing 'if (!anyBlocking)' reset is left out
checkCollisionNoReset(list, pPos, rotY) ==
    LET j == latestJunction(list)
        zone == j # 0 /\ inWallZone(list[j], pPos)
    IN  IF zone
        THEN IF isSidePath(list[j], rotY)
             THEN [isBlocked |-> FALSE, canTurn |-> TRUE]
             ELSE [isBlocked |-> TRUE, canTurn |-> TRUE]
        ELSE [isBlocked |-> isBlocked, canTurn |-> canTurn]

\* checkCollision: the flags it leaves in the character
checkCollision(list, pPos, rotY) ==
    LET j == latestJunction(list)
        zone == j # 0 /\ inWallZone(list[j], pPos)
        anyBlocking == zone /\ ~isSidePath(list[j], rotY)
        first == IF zone
                 THEN IF isSidePath(list[j], rotY)
                      THEN [isBlocked |-> FALSE, canTurn |-> TRUE]
                      ELSE [isBlocked |-> TRUE, canTurn |-> TRUE]
                 ELSE [isBlocked |-> isBlocked, canTurn |-> canTurn]
    IN  IF ~anyBlocking THEN [isBlocked |-> FALSE, canTurn |-> FALSE] ELSE first

\* --------------------------------------- CharacterController and the animator

Momenta == {0, 1}

TurnInputs == {"LEFT", "RIGHT", "CENTER"}

maxSpeed == (15 * Scale) \div 100

deviationMax == (29 * Scale) \div 10

\* THREE.MathUtils.lerp(speed, targetSpeed, 0.1)
lerpSpeed(s, target) == s + AwayDiv(target - s, 10)

blockedSpeedMutant(s, m) == lerpSpeed(0, m * maxSpeed)

\* mutant: the blocked speed is smoothed toward 0 instead of being set to 0
blockedSpeedDecay(s, m) == lerpSpeed(s, 0)

\* if (this.isBlocked) this.speed = 0
blockedSpeed(s, m) == 0

\* (0, 0, -1) turned by the group's quaternion, for whole quarter turns
forward(rotY) ==
    LET q == rotY % 4
    IN  IF q = 0 THEN <<0, -1>> ELSE IF q = 1 THEN <<-1, 0>>
        ELSE IF q = 2 THEN <<0, 1>> ELSE <<1, 0>>

\* Math.max(center - deviationMax, Math.min(center + deviationMax, v))
clamp(v, center) ==
    LET hi == center + deviationMax
        lo == center - deviationMax
        m == IF v < hi THEN v ELSE hi
    IN  IF m > lo THEN m ELSE lo

centerPullMutant(v, center) == v + AwayDiv((center - v) * 3, 1)

\* THREE.MathUtils.lerp(v, center, centeringStrength) with centeringStrength 0.03
centerPull(v, center) == v + AwayDiv((center - v) * 3, 100)

\* the lane assist on one coordinate: clamp, then centre while moving
laneAssist(v, center, spd) ==
    LET c == clamp(v, center)
    IN  IF 1000 * spd > Scale THEN centerPull(c, center) ELSE c

\* the "1. SPEED & MOVEMENT" block of CharacterAnimator.update, entered when not blocked
moveUnblocked(pos, rotY, spd, axis, center) ==
    LET f == forward(rotY)
        p == <<pos[1] + f[1] * spd, pos[2] + f[2] * spd>>
    IN  IF axis = "Z"
        THEN <<laneAssist(p[1], center, spd), p[2]>>
        ELSE <<p[1], laneAssist(p[2], center, spd)>>

\* the angle CharacterController.handleTurn adds to rotation.y, in quarter turns
turnAngle(direction) == IF direction = "LEFT" THEN 1 ELSE -1

\* mutant: the turn is taken on the level of the command, not on its edge
turnRequestedLevel(turn) == canTurn /\ turn # "CENTER"

\* the edge test of CharacterController.update
turnRequested(turn) == canTurn /\ turn # "CENTER" /\ turn # lastTurnInput

\* ---------------------------------------------------------------- states

SetLM(lm) ==
    /\ chunks' = lm.chunks
    /\ nextChunk' = lm.nextChunk
    /\ heading' = lm.heading
    /\ chunksSpawned' = lm.chunksSpawned
    /\ stopSpawning' = lm.stopSpawning
    /\ activeJunction' = lm.activeJunction
    /\ spawnTotal' = lm.spawnTotal

NoTurn == [dir |-> "NONE", from |-> NORTH, to |-> NORTH]

InitLM ==
    /\ chunks = LevelManagerNew.chunks
    /\ nextChunk = LevelManagerNew.nextChunk
    /\ heading = LevelManagerNew.heading
    /\ chunksSpawned = LevelManagerNew.chunksSpawned
    /\ stopSpawning = LevelManagerNew.stopSpawning
    /\ activeJunction = LevelManagerNew.activeJunction
    /\ spawnTotal = LevelManagerNew.spawnTotal

Init ==
    /\ InitLM
    /\ position = <<0, 0>>
    /\ rotationY = 0
    /\ speed = 0
    /\ isBlocked = FALSE
    /\ canTurn = FALSE
    /\ lastTurnInput = "CENTER"
    /\ constraintAxis = "Z"
    /\ constraintCenter = 0
    /\ pc = "game"
    /\ scanBy = 0
    /\ inBounds = {}
    /\ turnEvents = <<>>
    /\ lastTurn = NoTurn
    /\ turnCalls = 0
    /\ moved = [how |-> "none", momentum |-> 0, from |-> 0]

\* ----------------------------------------------------------------- a frame

\* GameManager.update: checkCollision, checkOrientation, levelManager.update
GameUpdate ==
    /\ pc = "game"
    /\ LET flags == checkCollision(chunks, position, rotationY)
           zone == checkOrientation(LM, constraintAxis, constraintCenter, position, rotationY)
       IN  /\ isBlocked' = flags.isBlocked
           /\ canTurn' = flags.canTurn
           /\ constraintAxis' = zone.axis
           /\ constraintCenter' = zone.center
           /\ SetLM(update(zone.lm, position[2]))
           /\ scanBy' = zone.by
           /\ inBounds' = {chunks[i].id : i \in {k \in 1..Len(chunks) :
                                isInside(chunks[k], worldToLocal(chunks[k], position))}}
           /\ turnEvents' = turnEvents \o zone.ev
           /\ lastTurn' = IF zone.ev = <<>> THEN lastTurn
                          ELSE [dir |-> zone.ev[1].dir, from |-> heading,
                                to |-> rotateHeading(heading, zone.ev[1].dir)]
    /\ pc' = "char"
    /\ UNCHANGED <<position, rotationY, speed, lastTurnInput, turnCalls, moved>>

\* CharacterController.update, with the input snapshot (momentum, turn)
CharUpdate ==
    \E momentum \in Momenta, turn \in TurnInputs :
        /\ pc = "char"
        /\ LET turns == turnRequested(turn)
               rot == IF turns THEN rotationY + turnAngle(turn) ELSE rotationY
               spd == IF isBlocked THEN blockedSpeed(speed, momentum)
                      ELSE lerpSpeed(speed, momentum * maxSpeed)
               pos == IF isBlocked THEN position
                      ELSE moveUnblocked(position, rot, spd, constraintAxis, constraintCenter)
           IN  /\ Abs(pos[1]) <= MaxStray
               /\ rotationY' = rot
               /\ canTurn' = IF turns THEN FALSE ELSE canTurn
               /\ lastTurnInput' = turn
               /\ speed' = spd
               /\ position' = pos
               /\ moved' = IF isBlocked
                           THEN [how |-> "blocked", momentum |-> momentum, from |-> speed]
                           ELSE [how |-> "assisted", momentum |-> 0, from |-> 0]
        /\ pc' = "game"
        /\ UNCHANGED <<lmVars, isBlocked, constraintAxis, constraintCenter,
                       scanBy, inBounds, turnEvents, lastTurn, turnCalls>>

Next == GameUpdate \/ CharUpdate

Spec == Init /\ [][Next]_vars

\* ------------------------------------------- the stream driven on its own

\* positions a caller may report to update, in chunk lengths behind the origin
StreamPlayerZs == {-(i * 3 * chunkLength) : i \in 0..MaxTurns}

StreamSpawn ==
    /\ SetLM(spawnSequence(LM))
    /\ UNCHANGED <<chVars, pc, ghostVars>>

StreamUpdate ==
    \E playerZ \in StreamPlayerZs :
        /\ SetLM(update(LM, playerZ))
        /\ UNCHANGED <<chVars, pc, ghostVars>>

StreamTurn ==
    \E dir \in Directions :
        /\ turnCalls < MaxTurns
        /\ stopSpawning \/ activeJunction.id = 0
        /\ SetLM(handleTurn(LM, dir))
        /\ turnCalls' = turnCalls + 1
        /\ lastTurn' = IF activeJunction.id = 0 THEN lastTurn
                       ELSE [dir |-> dir, from |-> heading, to |-> rotateHeading(heading, dir)]
        /\ UNCHANGED <<chVars, pc, scanBy, inBounds, turnEvents, moved>>

NextStream == StreamSpawn \/ StreamUpdate \/ StreamTurn

SpecStream == Init /\ [][NextStream]_vars

\* ------------------------------------------------------------------ claims

ChunkIndex == 1..Len(chunks)

\* C1, as stated: counting the non-halted spawn calls since creation or the
\* last turn reset, call n spawns a JUNCTION exactly when n is a multiple of
\* SEQUENCE_LENGTH.
C1_EveryKthCall ==
    \A i \in ChunkIndex :
        (chunks[i].kind = "JUNCTION") <=> (chunks[i].seq % SEQUENCE_LENGTH = 0)

\* C1, amended: call n spawns a JUNCTION exactly when the number n - 1 of
\* spawns made before it is a positive multiple of SEQUENCE_LENGTH (the call
\* after every SEQUENCE_LENGTH spawns); every other call spawns a NORMAL chunk.
C1_JunctionAfterKSpawns ==
    \A i \in ChunkIndex :
        (chunks[i].kind = "JUNCTION") <=>
            (chunks[i].seq - 1 > 0 /\ (chunks[i].seq - 1) % SEQUENCE_LENGTH = 0)

C1_Witness ==
    \E i, j, k \in ChunkIndex :
        /\ i < j /\ j < k
        /\ chunks[i].kind = "JUNCTION"
        /\ chunks[j].kind = "NORMAL" /\ chunks[j].seq = SEQUENCE_LENGTH
        /\ chunks[k].kind = "JUNCTION" /\ chunks[k].seq = SEQUENCE_LENGTH + 1

\* C2: checkOrientation calls the stream's turn handler at most once for a
\* junction, however long the traveler stays turned past the dead zone, and a
\* chunk's hasTurned never goes back from true to false.
C2_LatchIdempotence ==
    /\ [](\A i, j \in DOMAIN turnEvents : turnEvents[i].id = turnEvents[j].id => i = j)
    /\ [][\A i \in ChunkIndex : \A j \in 1..Len(chunks') :
            (chunks[i].id = chunks'[j].id /\ chunks[i].hasTurned) => chunks'[j].hasTurned]_vars

C2_Witness ==
    /\ pc = "char"
    /\ Len(turnEvents) = 1
    /\ chunksSpawned >= 4
    /\ \E i \in ChunkIndex :
        /\ chunks[i].id = turnEvents[1].id
        /\ chunks[i].hasTurned
        /\ activeJunction.id = chunks[i].id
        /\ isInside(chunks[i], worldToLocal(chunks[i], position))
        /\ ~isApproaching(chunks[i], rotationY)
        /\ 10 * Abs(worldToLocal(chunks[i], position)[1]) > 3 * Scale

\* the local bounds of a segment by its kind: |x| < 10 for NORMAL, |x| < 18
\* for JUNCTION, |z| < 12 for both
InsideByKind(chunk) ==
    LET l == worldToLocal(chunk, position)
    IN  /\ Abs(l[2]) < 12 * Scale
        /\ Abs(l[1]) < (IF chunk.kind = "NORMAL" THEN 10 * Scale ELSE 18 * Scale)

\* C3: when the traveler is inside the bounds of a NORMAL segment and of a
\* JUNCTION segment, the constraint in force after the zone scan is the one
\* set from the NORMAL segment.
C3_NormalWins ==
    (pc = "char" /\ \E i, j \in ChunkIndex :
        /\ chunks[i].kind = "NORMAL" /\ InsideByKind(chunks[i])
        /\ chunks[j].kind = "JUNCTION" /\ InsideByKind(chunks[j]))
    => \E i \in ChunkIndex :
        chunks[i].kind = "NORMAL" /\ InsideByKind(chunks[i]) /\ scanBy = chunks[i].id

\* C4: at the end of every frame the traveler's coordinate on the constrained
\* axis lies within deviationMax of the constraint centre in force.
C4_LateralClamp ==
    pc = "game" =>
        IF constraintAxis = "Z"
        THEN Abs(position[1] - constraintCenter) <= deviationMax
        ELSE Abs(position[2] - constraintCenter) <= deviationMax

C4_Witness ==
    /\ pc = "game"
    /\ constraintAxis = "X"
    /\ moved.how = "assisted"
    /\ speed > 0
    /\ position[2] # constraintCenter

\* C5: on every blocked frame the speed does not increase, whatever the
\* momentum, and it is 0 afterwards.
C5_BlockedSpeed ==
    [][(pc = "char" /\ isBlocked) => (speed' <= speed /\ speed' = 0)]_vars

C5_Witness ==
    /\ pc = "game"
    /\ isBlocked
    /\ moved.how = "blocked" /\ moved.momentum = 1 /\ moved.from > 0
    /\ speed = 0

WEST == <<-HeadingOne, 0>>

AfterLeftTurnFromNorth ==
    /\ lastTurn.dir = "LEFT" /\ lastTurn.from = NORTH
    /\ chunksSpawned = 1
    /\ Len(chunks) > 0
    /\ chunks[Len(chunks)].seq = 1

\* C7, as stated: for a junction at the origin with old heading (0,0,-1) and
\* a LEFT turn, junctionCenter = (0,0,-6.5), perpendicular = (-1,0,0),
\* sideOffset = (13.5,0,0), new heading (-1,0,0), new cursor (-6.5,0,-6.5)
\* (positions taken relative to the junction's spawn point).
C7_CursorAsStated ==
    AfterLeftTurnFromNorth =>
        /\ junctionCenter(<<0, 0>>, NORTH) = <<0, -((65 * Scale) \div 10)>>
        /\ perpendicular(NORTH) = <<-HeadingOne, 0>>
        /\ sideOffset(NORTH, "LEFT") = <<(135 * Scale) \div 10, 0>>
        /\ heading = WEST
        /\ chunks[Len(chunks)].pos =
             VecAdd(activeJunction.pos, <<-((65 * Scale) \div 10), -((65 * Scale) \div 10)>>)

\* C7, amended: the same steps give junctionCenter = (0,0,-6.5),
\* perpendicular = (1,0,0), sideOffset = (-13.5,0,0), new heading (-1,0,0)
\* and new cursor (-33.5,0,-6.5); the chunk spawned by the turn lies there.
C7_CursorRecomputed ==
    AfterLeftTurnFromNorth =>
        /\ junctionCenter(<<0, 0>>, NORTH) = <<0, -((65 * Scale) \div 10)>>
        /\ perpendicular(NORTH) = <<HeadingOne, 0>>
        /\ sideOffset(NORTH, "LEFT") = <<-((135 * Scale) \div 10), 0>>
        /\ newCursor(<<0, 0>>, NORTH, "LEFT") = <<-((335 * Scale) \div 10), -((65 * Scale) \div 10)>>
        /\ heading = WEST
        /\ chunks[Len(chunks)].pos =
             VecAdd(activeJunction.pos, <<-((335 * Scale) \div 10), -((65 * Scale) \div 10)>>)
        /\ chunks[Len(chunks)].h = WEST

C7_Witness == AfterLeftTurnFromNorth /\ activeJunction.id # 0 /\ ~stopSpawning

\* C8: the stream's heading and the heading recorded in every chunk are
\* always one of the four cardinal unit vectors.
C8_CardinalHeading ==
    /\ heading \in Cardinals
    /\ \A i \in ChunkIndex : chunks[i].h \in Cardinals

C8_Witness ==
    /\ heading = <<0, HeadingOne>>
    /\ \E i, j \in ChunkIndex : chunks[i].h = NORTH /\ chunks[j].h \in {WEST, <<HeadingOne, 0>>}

\* C9: the active junction is the most recently spawned JUNCTION of the list;
\* a turn event is only emitted for it, and the traveler is blocked exactly
\* when it faces the far wall of that junction from inside its wall zone, so
\* that an older JUNCTION of the list neither triggers a turn nor blocks.
C9_ActiveJunction ==
    /\ latestJunctionId(chunks) # 0 => activeJunction.id = latestJunctionId(chunks)
    /\ \A e \in DOMAIN turnEvents : turnEvents[e].id = turnEvents[e].latest
    /\ pc = "char" =>
         (isBlocked <=> \E i \in ChunkIndex :
                            /\ chunks[i].id = latestJunctionId(chunks)
                            /\ inWallZone(chunks[i], position)
                            /\ ~isSidePath(chunks[i], rotationY))

C9_Witness ==
    /\ pc = "char"
    /\ ~isBlocked
    /\ \E i, j \in ChunkIndex :
        /\ chunks[i].kind = "JUNCTION" /\ chunks[j].kind = "JUNCTION" /\ i < j
        /\ activeJunction.id = chunks[j].id
        /\ inWallZone(chunks[i], position)
        /\ \E e \in DOMAIN turnEvents : turnEvents[e].id = chunks[i].id

\* C10: on a frame whose zone scan found the traveler in no chunk, the mover
\* applies no constraint (it neither clamps nor centres).
C10_NoStaleConstraint ==
    (pc = "game" /\ inBounds = {}) => moved.how # "assisted"

\* C11: the position and heading recorded for a chunk at its spawn are never
\* changed by a later step (spawn, eviction, zone scan, turn, movement) while
\* the chunk stays in the list.
C11_PoseImmutable ==
    [][\A i \in ChunkIndex : \A j \in 1..Len(chunks') :
            chunks[i].id = chunks'[j].id =>
                (chunks'[j].pos = chunks[i].pos /\ chunks'[j].h = chunks[i].h)]_vars

C11_Witness ==
    /\ Len(turnEvents) > 0
    /\ Len(chunks) > 2
    /\ chunks[1].id > 1
    /\ chunks[1].pos = <<0, -((chunks[1].id - 1) * chunkLength)>>
    /\ chunks[1].h = NORTH
    /\ chunks[Len(chunks)].h # NORTH
    /\ position[1] # 0

\* C12: a turn requested while the stream has no active junction is dropped:
\* the cursor, the heading, the chunk list, the spawn count and the halt flag
\* are unchanged, and the stream goes on as before.
C12_TurnDropped ==
    [][(turnCalls' # turnCalls /\ activeJunction.id = 0) => UNCHANGED lmVars]_vars

C12_Witness ==
    /\ turnCalls >= 1
    /\ lastTurn = NoTurn
    /\ heading = NORTH
    /\ activeJunction.id # 0
    /\ stopSpawning

\* a frame that starts with the stream halted and on which no turn resolves
\* the junction: all it does to the stream is LevelManager.update
HaltedFrame == pc = "game" /\ stopSpawning /\ turnEvents' = turnEvents

\* C13, as stated: while the stream is halted a call of update changes
\* nothing: no chunk is spawned, none is evicted, and the cursor and the spawn
\* counter are unchanged.
C13_InertWhileHalted ==
    [][HaltedFrame => UNCHANGED lmVars]_vars

\* C13, amended: while the stream is halted a call of update spawns nothing
\* and leaves the cursor, the spawn counter and the halt flag unchanged; it
\* may still evict the oldest chunk.
C13_NoSpawnWhileHalted ==
    [][HaltedFrame =>
          /\ UNCHANGED <<nextChunk, heading, chunksSpawned, stopSpawning, activeJunction, spawnTotal>>
          /\ chunks' = chunks \/ chunks' = Tail(chunks)]_vars

C13_Witness ==
    /\ stopSpawning
    /\ spawnTotal = SEQUENCE_LENGTH + 1
    /\ chunks[1].id >= SEQUENCE_LENGTH - 1
    /\ turnEvents = <<>>

\* C14: on a frame where the traveler is within 4.0 of the active junction's
\* far wall, within 15 of its centre laterally, and already turned into a side
\* path, the flags after the blocking check are blocked = false and
\* canTurn = true.
C14_SidePathFlags ==
    (pc = "char" /\ \E i \in ChunkIndex :
        /\ chunks[i].id = activeJunction.id
        /\ inWallZone(chunks[i], position)
        /\ isSidePath(chunks[i], rotationY))
    => (~isBlocked /\ canTurn)

\* the first frame on which the mover runs blocked while it still has speed
FirstBlockedFrame == pc = "char" /\ isBlocked /\ speed > 0

\* C15, as stated: on the first blocked frame with speed s > 0 the speed
\* becomes s + (0 - s) * smoothingFactor, still greater than 0: blocking is
\* never an instantaneous stop.
C15_DecayingStop ==
    [][FirstBlockedFrame => (speed' = lerpSpeed(speed, 0) /\ speed' > 0)]_vars

\* C15, amended: on the first blocked frame with speed s > 0 the speed
\* becomes 0 at once: blocking is an instantaneous stop.
C15_InstantStop ==
    [][FirstBlockedFrame => speed' = 0]_vars

C15_Witness ==
    /\ pc = "game"
    /\ moved.how = "blocked"
    /\ moved.from = maxSpeed
    /\ speed = 0
    /\ rotationY = 0

\* a frame on which the oldest chunk leaves the list
HeadEvicted ==
    /\ pc = "game"
    /\ Len(chunks) > 0
    /\ \A j \in 1..Len(chunks') : chunks'[j].id # chunks[1].id

\* the square of the distance between two points
DistSq(a, b) == (a[1] - b[1]) * (a[1] - b[1]) + (a[2] - b[2]) * (a[2] - b[2])

\* C16, as stated: the oldest chunk is removed only if its distance from the
\* traveler exceeds (renderDistance + 2) * chunkLength.
C16_RetireBeyondRenderDistance ==
    [][HeadEvicted =>
          DistSq(chunks[1].pos, position) >
              ((renderDistance + 2) * chunkLength) * ((renderDistance + 2) * chunkLength)]_vars

\* C16, amended: the oldest chunk is removed only if it lies more than
\* 2 * chunkLength behind the traveler (its z exceeds the traveler's z by more
\* than that); a chunk no farther behind is never evicted.
C16_KeepTwoBehind ==
    [][HeadEvicted => chunks[1].pos[2] > position[2] + 2 * chunkLength]_vars

C16_Witness ==
    /\ chunks[1].id > 1
    /\ chunks[1].pos[2] - position[2] > chunkLength
    /\ chunks[1].pos[2] - position[2] <= 2 * chunkLength
    /\ pc = "char"
    /\ turnEvents = <<>>

\* C17: one step removes at most one chunk, the removed chunk is the head of
\* the oldest-first list, and the chunks that stay keep their order.
C17_BoundedEviction ==
    [][\E k \in {0, 1} :
          /\ k <= Len(chunks)
          /\ Len(chunks') >= Len(chunks) - k
          /\ \A i \in 1..(Len(chunks) - k) : chunks'[i].id = chunks[i + k].id]_vars

C17_Witness ==
    /\ chunks[1].id = 2
    /\ spawnTotal = renderDistance + 1
    /\ Len(chunks) = renderDistance
    /\ \A i \in 1..(Len(chunks) - 1) : chunks[i + 1].id = chunks[i].id + 1

\* the render buffer of spec 4.2: bufferSegments * segmentLength, with
\* bufferSegments = renderDistance - 2
RenderBuffer == (renderDistance - 2) * chunkLength

C19_SpawnNoOpWhileHalted ==
    [][(stopSpawning /\ stopSpawning') =>
          /\ UNCHANGED <<nextChunk, heading, chunksSpawned, spawnTotal, activeJunction>>
          /\ \A j \in 1..Len(chunks') : \E i \in ChunkIndex : chunks[i] = chunks'[j]]_vars

C19_Witness ==
    /\ stopSpawning
    /\ spawnTotal = SEQUENCE_LENGTH + 1
    /\ chunksSpawned = SEQUENCE_LENGTH + 1
    /\ chunks[1].id >= renderDistance + 1
    /\ chunks[Len(chunks)].kind = "JUNCTION"
    /\ turnCalls = 0

\* C20: the traveler's turn is committed on a frame only if canTurn holds on
\* that frame, the sampled command is LEFT or RIGHT, and it differs from the
\* command sampled on the frame before; a command held over consecutive
\* frames commits at most one turn.
C20_EdgeTriggeredTurn ==
    [][rotationY' # rotationY =>
          /\ pc = "char"
          /\ canTurn
          /\ lastTurnInput' \in Directions
          /\ lastTurnInput' # lastTurnInput
          /\ rotationY' = rotationY + turnAngle(lastTurnInput')]_vars

C20_Witness ==
    /\ pc = "game"
    /\ moved.how = "blocked"
    /\ isBlocked
    /\ canTurn
    /\ lastTurnInput = "LEFT"
    /\ rotationY = 0

\* a step of the stream on which a turn is carried out against the active junction
TurnResolved == turnCalls' # turnCalls /\ activeJunction.id # 0

\* C21: a turn carried out against the active junction resets the spawn count,
\* clears the halt and spawns once in the same step: right after it the list
\* is one chunk longer, its new last chunk is NORMAL, lies at the recomputed
\* cursor with the new heading, and the stream is not halted.
C21_TurnResumesStream ==
    [][TurnResolved =>
          /\ chunksSpawned' = 1
          /\ ~stopSpawning'
          /\ Len(chunks') = Len(chunks) + 1
          /\ SubSeq(chunks', 1, Len(chunks)) = chunks
          /\ chunks'[Len(chunks')].kind = "NORMAL"
          /\ chunks'[Len(chunks')].seq = 1
          /\ chunks'[Len(chunks')].pos = newCursor(activeJunction.pos, heading, lastTurn'.dir)
          /\ chunks'[Len(chunks')].h = rotateHeading(heading, lastTurn'.dir)
          /\ heading' = rotateHeading(heading, lastTurn'.dir)
          /\ nextChunk' = VecAdd(chunks'[Len(chunks')].pos, Along(heading', chunkLength))]_vars

C21_Witness ==
    /\ turnCalls = 1
    /\ lastTurn.dir = "RIGHT"
    /\ chunksSpawned = 1
    /\ ~stopSpawning
    /\ chunks[Len(chunks)].seq = 1
    /\ chunks[Len(chunks)].kind = "NORMAL"
    /\ chunks[Len(chunks)].h = <<HeadingOne, 0>>

\* C22: in spawn order two JUNCTION chunks are never consecutive: the count
\* restarts at 0 after a turn, so at least SEQUENCE_LENGTH - 1 NORMAL chunks
\* are spawned before a JUNCTION and between a JUNCTION and the next one.
C22_ForksNeverCluster ==
    /\ \A i \in ChunkIndex :
          chunks[i].kind = "JUNCTION" => chunks[i].seq - 1 >= SEQUENCE_LENGTH - 1
    /\ \A i, j \in ChunkIndex :
          (i < j /\ chunks[i].kind = "JUNCTION" /\ chunks[j].kind = "JUNCTION") =>
              /\ j - i = chunks[j].id - chunks[i].id
              /\ Cardinality({k \in (i + 1)..(j - 1) : chunks[k].kind = "NORMAL"})
                    >= SEQUENCE_LENGTH - 1

C22_Witness ==
    \E i, j \in ChunkIndex :
        /\ chunks[i].kind = "JUNCTION" /\ chunks[j].kind = "JUNCTION"
        /\ j - i = SEQUENCE_LENGTH + 1
        /\ chunks[i + 1].seq = 1
        /\ chunks[j].h # chunks[i].h

\* C23: the direction of a turn event is the sign of the traveler's local
\* lateral coordinate in the junction's frame, LEFT for a negative coordinate
\* and RIGHT for a positive one.
C23_EventDirectionIsSign ==
    \A e \in DOMAIN turnEvents :
        /\ turnEvents[e].x < 0 => turnEvents[e].dir = "LEFT"
        /\ turnEvents[e].x > 0 => turnEvents[e].dir = "RIGHT"

\* the traveler is within 4.0 of the chunk's far wall (local z = -10) and
\* less than 15 from its centre line
NearFarWall(chunk) ==
    LET l == worldToLocal(chunk, position)
    IN  /\ Abs(l[2] + 10 * Scale) < 4 * Scale
        /\ Abs(l[1]) < 15 * Scale

\* C24: after the blocking check of a frame on which the list holds no
\* JUNCTION, or on which the traveler is 4.0 or more from the latest
\* junction's far wall or 15 or more from its centre line, blocked and
\* canTurn are both false.
C24_NoJunctionNoBlocking ==
    (pc = "char" /\ \A i \in ChunkIndex :
        chunks[i].id = latestJunctionId(chunks) => ~NearFarWall(chunks[i]))
    => (~isBlocked /\ ~canTurn)

C24_Witness ==
    /\ pc = "char"
    /\ ~isBlocked /\ ~canTurn
    /\ speed > 0
    /\ \E i \in ChunkIndex :
        /\ chunks[i].id = latestJunctionId(chunks)
        /\ isInside(chunks[i], worldToLocal(chunks[i], position))
        /\ ~NearFarWall(chunks[i])
        /\ worldToLocal(chunks[i], position)[2] < 0

\* the two local constraints the zone scan applies: local X = 0 and local Z = -6.5
LocalConstraints == {<<"X", 0>>, <<"Z", -((65 * Scale) \div 10)>>}

\* positions along a world constraint line, relative to the chunk's position
LineOffsets == {-(2 * Scale), 0, 3 * Scale}

\* the world line that a constraint (axis, center) holds the traveler on, for a chunk
OnWorldLine(chunk, w, t) ==
    IF w.axis = "Z" THEN <<w.center, chunk.pos[2] + t>> ELSE <<chunk.pos[1] + t, w.center>>

\* C25: for a chunk of any of the four cardinal headings and each local
\* constraint, the world axis and centre computed by _applyLocalConstraint
\* describe exactly the world line of the points whose local coordinate on
\* the constrained local axis is the constraint value.
C25_ConstraintConversionExact ==
    \A i \in ChunkIndex : \A lc \in LocalConstraints : \A t \in LineOffsets :
        LET w == applyLocalConstraint(chunks[i], lc[1], lc[2])
            l == worldToLocal(chunks[i], OnWorldLine(chunks[i], w, t))
        IN  IF lc[1] = "X" THEN l[1] = lc[2] ELSE l[2] = lc[2]

C25_Witness ==
    /\ \E i \in ChunkIndex :
          /\ chunks[i].h = <<HeadingOne, 0>>
          /\ applyLocalConstraint(chunks[i], "Z", -((65 * Scale) \div 10))
               = [axis |-> "Z", center |-> chunks[i].pos[1] + (65 * Scale) \div 10]
    /\ \E i \in ChunkIndex :
          /\ chunks[i].h = <<0, HeadingOne>>
          /\ applyLocalConstraint(chunks[i], "Z", -((65 * Scale) \div 10))
               = [axis |-> "X", center |-> chunks[i].pos[2] + (65 * Scale) \div 10]
    /\ \E i \in ChunkIndex : chunks[i].h = NORTH

C27_HaltedAtLastJunction ==
    /\ stopSpawning =>
          /\ Len(chunks) > 0
          /\ chunks[Len(chunks)].kind = "JUNCTION"
          /\ chunks[Len(chunks)].id = activeJunction.id
          /\ chunks[Len(chunks)].pos = activeJunction.pos
          /\ nextChunk = VecAdd(chunks[Len(chunks)].pos, Along(heading, chunkLength))
    /\ \A i \in ChunkIndex :
          (chunks[i].kind = "JUNCTION" /\ i < Len(chunks)) => chunks[i + 1].seq = 1

C27_Witness ==
    /\ stopSpawning
    /\ heading = <<HeadingOne, 0>>
    /\ chunks[Len(chunks)].kind = "JUNCTION"
    /\ nextChunk = VecAdd(activeJunction.pos, <<chunkLength, 0>>)
    /\ \E i \in ChunkIndex : chunks[i].kind = "JUNCTION" /\ i < Len(chunks)

\* local Z of the centreline of a junction's side corridors: -chunkLength/2 + chunkWidth/2
junctionZ == -(chunkLength \div 2) + chunkWidth \div 2

\* local |X| of the centre of a junction's side corridors: chunkLength/2 + chunkWidth/2
widthOffset == chunkLength \div 2 + chunkWidth \div 2

\* the side of junction j on which the chunk c lies that a turn spawned: -1 left, +1 right
turnedSide(j, c) == IF c.h = rotateHeading(j.h, "LEFT") THEN -1 ELSE 1

\* C29: the chunk spawned by a turn lies at junctionCenter plus
\* (chunkLength + chunkWidth)/2 + chunkLength (33.5) along the new heading;
\* in the junction's own frame that is on the centreline of the side corridor
\* of the turned side (local Z = -6.5), and the chunk's near end is at local
\* |X| = 23.5, the far end of that corridor (centre 13.5, length 20), for LEFT
\* and RIGHT turns and every old heading.
C29_CursorMeetsSideCorridor ==
    \A i \in ChunkIndex :
        (i < Len(chunks) /\ chunks[i].kind = "JUNCTION" /\ chunks[i + 1].seq = 1) =>
            LET j == chunks[i]
                c == chunks[i + 1]
                nearEnd == VecAdd(c.pos, Along(c.h, -(chunkLength \div 2)))
            IN  /\ c.h \in {rotateHeading(j.h, "LEFT"), rotateHeading(j.h, "RIGHT")}
                /\ c.pos = VecAdd(junctionCenter(j.pos, j.h),
                                  Along(c.h, (chunkLength + chunkWidth) \div 2 + chunkLength))
                /\ worldToLocal(j, c.pos) = <<turnedSide(j, c) * (widthOffset + chunkLength), junctionZ>>
                /\ worldToLocal(j, nearEnd) = <<turnedSide(j, c) * (widthOffset + chunkLength \div 2), junctionZ>>

C29_Witness ==
    \E i, k \in ChunkIndex :
        /\ i < Len(chunks) /\ k < Len(chunks)
        /\ chunks[i].kind = "JUNCTION" /\ chunks[i].h = <<0, HeadingOne>>
        /\ chunks[i + 1].seq = 1 /\ chunks[i + 1].h = WEST
        /\ worldToLocal(chunks[i], chunks[i + 1].pos) = <<(335 * Scale) \div 10, -((65 * Scale) \div 10)>>
        /\ chunks[k].kind = "JUNCTION" /\ chunks[k].h = <<HeadingOne, 0>>
        /\ chunks[k + 1].seq = 1 /\ chunks[k + 1].h = <<0, HeadingOne>>

\* the ids of the chunks in the list
ListedIds == {chunks[i].id : i \in ChunkIndex}

\* C30: when LevelManager.update has returned at the end of a game update,
\* every chunk whose local bounds contained the traveler during that update is
\* still in the list, and so is the active junction as long as no turn has
\* been triggered at it.
C30_OccupiedChunkKept ==
    /\ pc = "char" => inBounds \subseteq ListedIds
    /\ (activeJunction.id # 0 /\ \A e \in DOMAIN turnEvents : turnEvents[e].id # activeJunction.id)
          => activeJunction.id \in ListedIds

C30_Witness ==
    /\ pc = "char"
    /\ chunks[1].id > 1
    /\ activeJunction.id \in inBounds
    /\ \A e \in DOMAIN turnEvents : turnEvents[e].id # activeJunction.id
    /\ \E i \in ChunkIndex : chunks[i].kind = "NORMAL" /\ chunks[i].id \in inBounds

====
